---------------------------- MODULE Spec2Model ----------------------------
(***************************************************************************)
(* The SurveyManager Durable Object of src/src/index.ts.                   *)
(*                                                                         *)
(* The file holds two revisions of the class:                              *)
(*   impl = "recount"  (lines 37-190)  getState recomputes the tallies     *)
(*                                     from the stored votes;              *)
(*   impl = "stored"   (lines 358-521) tallies and totalVotes are stored   *)
(*                                     and updated incrementally.          *)
(* Init picks one revision; every handler is modelled for both.            *)
(*                                                                         *)
(* A handler is split at its awaits: one action is the code that runs      *)
(* between two awaits.  While a storage operation is pending the Durable   *)
(* Object's input gate is closed: no other event (request, socket event,   *)
(* completion of request.json()) is delivered to the object.               *)
(***************************************************************************)
EXTENDS Integers, Sequences, FiniteSets, TLC

\* ------------------------------------------------------------------ bounds
MaxNow == 2          \* Date.now() returns a value in 1..MaxNow

\* ------------------------------------------------------------ constants
AI_TOOLS ==
  << "Claude Code", "Replit", "Cursor", "Windsurf", "OpenAI Codex",
     "Roo Code", "Google Jules", "AWS Kiro", "Loveable", "Other", "None" >>

Catalog == { AI_TOOLS[i] : i \in DOMAIN AI_TOOLS }

Impls == { "recount", "stored" }
Sessions == { "s1", "s2" }
Slots == { "r1", "r2" }                 \* requests in flight at a time
Sockets == { "w1", "w2" }
CoreSockets == { "w1" }                 \* the sockets that connect under Spec
Times == 1..MaxNow
\* the selections arrays a request body carries: empty, unknown only, one
\* option, an option with an unknown one, a repeated option, two options
SelInputs ==
  { << >>, << "bogus" >>, << "Cursor" >>, << "Cursor", "bogus" >>,
    << "Cursor", "Cursor" >>, << "Replit", "Cursor" >> }

Free == "free"                          \* input gate open
Bcast == "bcast"                        \* the detached broadcastState task
NoSession == "-"
NoSocket == "-"
StorageKeys == { "votes", "tallies", "totalVotes", "startTime" }

\* ------------------------------------------------------------- variables
VARIABLES
  impl,          \* revision of the class
  storage,       \* this.ctx.storage: keys present and their values
  connections,   \* this.connections
  sockets,       \* runtime state of each WebSocket
  req,           \* per slot: the handler running there and its locals
  bcast,         \* the detached broadcastState() task (recount only)
  gate,          \* owner of the pending storage operation, or Free
  resp,          \* HTTP response produced by the last step (at most one)
  sent,          \* WebSocket messages sent by the last step
  ledger,        \* history: selections accepted per session since the
                 \*          last reset deleted the votes
  cleared        \* history: sessions whose votes a reset removed and that
                 \*          have not been accepted again since

vars == << impl, storage, connections, sockets, req, bcast, gate, resp, sent,
           ledger, cleared >>

\* ---------------------------------------------------------------- maps
EmptyMap == [ x \in {} |-> 0 ]

MapSet(m, k, v) == [ x \in DOMAIN m \cup {k} |-> IF x = k THEN v ELSE m[x] ]

MapWithout(m, k) == [ x \in DOMAIN m \ {k} |-> m[x] ]

\* tallies.get(k) || 0
TallyGet(t, k) == IF k \in DOMAIN t THEN t[k] ELSE 0

\* new Map(AI_TOOLS.map(tool => [tool, 0]))
ZeroTallies == [ o \in Catalog |-> 0 ]

\* AI_TOOLS.includes(s)
Includes(s) == \E i \in DOMAIN AI_TOOLS : AI_TOOLS[i] = s

has_Never(votes, sessionId) == FALSE

\* votes.has(sessionId)
has(votes, sessionId) == sessionId \in DOMAIN votes

Increment_Forgotten(n) == n

\* state.totalVotes++
Increment(n) == n + 1

validSelections_Unfiltered(selections) == selections

\* selections.filter(s => AI_TOOLS.includes(s))
validSelections(selections) == SelectSeq(selections, Includes)

\* for (const selection of sel) tallies.set(selection, (tallies.get(selection) || 0) + 1)
RECURSIVE AddSelections(_, _)
AddSelections(t, sel) ==
  IF sel = << >> THEN t
  ELSE AddSelections(MapSet(t, Head(sel), TallyGet(t, Head(sel)) + 1), Tail(sel))

\* for (const vote of votes.values()) vote.selections.forEach(...)
RECURSIVE CountVotes(_, _)
CountVotes(t, votes) ==
  IF DOMAIN votes = {} THEN t
  ELSE LET s == CHOOSE x \in DOMAIN votes : TRUE
       IN  CountVotes(AddSelections(t, votes[s].selections), MapWithout(votes, s))

\* The timestamp field (Date.now()) is written and never read; it is left out.
Vote(sessionId, sel) == [ sessionId |-> sessionId, selections |-> sel ]

\* ------------------------------------------------------------- storage
EmptyStorage ==
  [ keys |-> {}, votes |-> EmptyMap, tallies |-> EmptyMap,
    totalVotes |-> 0, startTime |-> 0 ]

Put_Dropped(sto, k, v) == sto

\* ctx.storage.put(k, v)
Put(sto, k, v) == [ sto EXCEPT !.keys = @ \cup {k}, ![k] = v ]

Delete_Dropped(sto, k) == sto

\* ctx.storage.delete(k)
Delete(sto, k) == [ sto EXCEPT !.keys = @ \ {k}, ![k] = EmptyStorage[k] ]

\* a deleteAll that removes the votes and leaves the stored counters
DeleteAll_VotesOnly(sto) == Delete(sto, "votes")

\* ctx.storage.deleteAll()
DeleteAll(sto) == EmptyStorage

\* (await ctx.storage.get(k)) || d     for a Map value (always truthy)
GetMapOr(sto, k, d) == IF k \in sto.keys THEN sto[k] ELSE d

\* (await ctx.storage.get(k)) || d     for a number (0 is falsy)
GetNumOr(sto, k, d) == IF k \in sto.keys /\ sto[k] # 0 THEN sto[k] ELSE d

\* ------------------------------------------------------------ getState
\* the SurveyState a handler is assembling
NoState ==
  [ votes |-> EmptyMap, tallies |-> EmptyMap, totalVotes |-> 0, startTime |-> 0 ]

\* The code of getState that runs when the storage.get awaited at pc
\* completes; now is what Date.now() returns there.
GetStateRead(st, sto, pc, now) ==
  CASE pc = "getVotes" ->
         LET votes == GetMapOr(sto, "votes", EmptyMap)
         IN  IF impl = "recount"
             THEN [ st EXCEPT !.votes = votes,
                              !.tallies = CountVotes(ZeroTallies, votes),
                              !.totalVotes = Cardinality(DOMAIN votes) ]
             ELSE [ st EXCEPT !.votes = votes ]
    [] pc = "getTallies" ->
         [ st EXCEPT !.tallies = GetMapOr(sto, "tallies", ZeroTallies) ]
    [] pc = "getTotal" ->
         [ st EXCEPT !.totalVotes = GetNumOr(sto, "totalVotes", 0) ]
    [] pc = "getStart" ->
         [ st EXCEPT !.startTime = GetNumOr(sto, "startTime", now) ]

\* the storage.get that getState awaits after the one at pc
GetStateNext(pc) ==
  IF impl = "recount"
  THEN "getStart"
  ELSE CASE pc = "getVotes" -> "getTallies"
         [] pc = "getTallies" -> "getTotal"
         [] pc = "getTotal" -> "getStart"

\* getState run to completion against one storage content
getState(sto, now) ==
  IF impl = "recount"
  THEN GetStateRead(GetStateRead(NoState, sto, "getVotes", now), sto, "getStart", now)
  ELSE GetStateRead(GetStateRead(GetStateRead(GetStateRead(NoState,
         sto, "getVotes", now), sto, "getTallies", now), sto, "getTotal", now),
         sto, "getStart", now)

\* ------------------------------------------------------------ messages
Snapshot_NoPresence(st, online) ==
  [ tallies |-> st.tallies, totalVotes |-> st.totalVotes, onlineUsers |-> 0 ]

\* { tallies: Object.fromEntries(state.tallies), totalVotes, onlineUsers }
Snapshot(st, online) ==
  [ tallies |-> st.tallies, totalVotes |-> st.totalVotes, onlineUsers |-> online ]

Message(type, data) == [ type |-> type, data |-> data ]

\* ws.send throws unless the socket is open
SendOk(w) == sockets[w] = "open"

\* the subscribers whose socket is open
Live == { w \in Sockets : sockets[w] = "open" }

\* this.ctx.getWebSockets(): the accepted sockets the runtime still holds
getWebSockets == { w \in Sockets : sockets[w] \in { "open", "closing" } }

Deliver_Aborting(targets, msg) ==
  IF \E x \in targets : ~ SendOk(x) THEN {} ELSE { [ to |-> w, msg |-> msg ] : w \in targets }

\* the sends of one fan-out over targets: send inside try/catch per socket,
\* so a send that throws does not end the loop
Deliver(targets, msg) == { [ to |-> w, msg |-> msg ] : w \in { x \in targets : SendOk(x) } }

connectionsDelete_Kept(conns, w) == conns

\* this.connections.delete(ws): no effect, and no exception, when ws is absent
connectionsDelete(conns, w) == conns \ {w}

\* broadcastState's loop (recount): a failed send deletes the socket
broadcastStateConns(conns) == { w \in conns : SendOk(w) }

\* ------------------------------------------------------------ requests
\* conc: the request has been in flight together with the other slot's
\* request.  Only such a request leaves a record (pc = "done") when it ends,
\* and the record lasts until the next request arrives.
IdleReq ==
  [ kind |-> "none", pc |-> "idle", sessionId |-> NoSession, selections |-> << >>,
    st |-> NoState, now |-> 0, ws |-> NoSocket, out |-> "none", conc |-> FALSE ]

DoneReq(r, out) ==
  IF req[r].conc
  THEN [ IdleReq EXCEPT !.kind = req[r].kind, !.pc = "done",
                        !.sessionId = req[r].sessionId,
                        !.out = out, !.conc = TRUE ]
  ELSE IdleReq

IdleBcast == [ pc |-> "idle", st |-> NoState, cause |-> "none" ]

\* broadcastState() called without await by submitVote, resetSurvey or
\* webSocketClose (the cause): it runs up to its first storage.get
SpawnBcast(cause) == [ pc |-> "getVotes", st |-> NoState, cause |-> cause ]

InFlight(r) == req[r].pc \notin { "idle", "done" }

CanStart(r) == req[r].pc \in { "idle", "done" }

InputGateOpen_Always(who) == TRUE

\* The input gate: an event for handler who is delivered only when no storage
\* operation of another handler is pending.
InputGateOpen(who) == gate \in { Free, who }

\* result texts of submitVote
AlreadyVoted == IF impl = "recount" THEN "Already voted" ELSE "You have already voted"
NoValidSelections ==
  IF impl = "recount" THEN "No valid selections" ELSE "Please select at least one option"
Recorded == IF impl = "recount" THEN "" ELSE "Vote recorded successfully"

\* the response to the /vote request of slot r (sessionId names the request)
VoteResult(r, success, text) ==
  [ slot |-> r, kind |-> "vote", sessionId |-> req[r].sessionId,
    success |-> success, text |-> text ]

Quiet == resp' = {} /\ sent' = {}

\* the request table after a request described by new arrives in slot r
Started(r, new) ==
  req' = [ q \in Slots |->
           IF q = r THEN [ new EXCEPT !.conc = \E o \in Slots \ {r} : InFlight(o) ]
           ELSE IF InFlight(q) THEN [ req[q] EXCEPT !.conc = TRUE ]
           ELSE IdleReq ]

Init ==
  /\ impl \in Impls
  /\ storage = EmptyStorage
  /\ connections = {}
  /\ sockets = [ w \in Sockets |-> "free" ]
  /\ req = [ r \in Slots |-> IdleReq ]
  /\ bcast = IdleBcast
  /\ gate = Free
  /\ resp = {}
  /\ sent = {}
  /\ ledger = EmptyMap
  /\ cleared = {}

\* ------------------------------------------------------ POST /vote
\* fetch, /vote branch: the request arrives and awaits request.json()
fetchVote(r) ==
  /\ CanStart(r)
  /\ InputGateOpen(r)
  /\ Started(r, [ IdleReq EXCEPT !.kind = "vote", !.pc = "json" ])
  /\ Quiet
  /\ UNCHANGED << impl, storage, connections, sockets, bcast, gate, ledger, cleared >>

\* request.json() resolves with body {sessionId, selections}; submitVote is
\* called and awaits its first storage.get
voteJson(r) ==
  /\ req[r].kind = "vote" /\ req[r].pc = "json"
  /\ InputGateOpen(r)
  /\ \E s \in Sessions, sel \in SelInputs :
       req' = [ req EXCEPT ![r].pc = "getVotes", ![r].sessionId = s,
                           ![r].selections = sel ]
  /\ gate' = r
  /\ Quiet
  /\ UNCHANGED << impl, storage, connections, sockets, bcast, ledger, cleared >>

Verdict_ValidationFirst(votes, sessionId, valid) ==
  IF Len(valid) = 0 THEN "invalid"
  ELSE IF has(votes, sessionId) THEN "voted"
  ELSE "accept"

\* the two rejection checks of submitVote, in the order of the code: first
\* votes.has(sessionId), then validSelections.length === 0
Verdict(votes, sessionId, valid) ==
  IF has(votes, sessionId) THEN "voted"
  ELSE IF Len(valid) = 0 THEN "invalid"
  ELSE "accept"

\* the state submitVote holds once its reads are done
VoteReadDone(r) ==
  \/ impl = "recount" /\ req[r].pc = "getVotes"
  \/ impl = "stored" /\ req[r].pc = "getStart"

\* submitVote from the end of its reads to its first storage.put (or to a
\* rejection): the already-voted check, the filter, the new Vote
submitVoteCheck(r) ==
  /\ req[r].kind = "vote" /\ VoteReadDone(r)
  /\ InputGateOpen(r)
  /\ \E now \in Times :
       LET st == GetStateRead(req[r].st, storage, req[r].pc, now)
           votes == IF impl = "recount"
                    THEN GetMapOr(storage, "votes", EmptyMap) ELSE st.votes
           s == req[r].sessionId
           valid == validSelections(req[r].selections)
           vote == Vote(s, valid)
           verdict == Verdict(votes, s, valid)
       IN  IF verdict = "voted"
           THEN /\ req' = [ req EXCEPT ![r] = DoneReq(r, AlreadyVoted) ]
                /\ resp' = { VoteResult(r, FALSE, AlreadyVoted) }
                /\ gate' = Free
           ELSE IF verdict = "invalid"
           THEN /\ req' = [ req EXCEPT ![r] = DoneReq(r, NoValidSelections) ]
                /\ resp' = { VoteResult(r, FALSE, NoValidSelections) }
                /\ gate' = Free
           ELSE /\ req' = [ req EXCEPT ![r].pc = "putVotes",
                     ![r].st = IF impl = "recount"
                               THEN [ NoState EXCEPT !.votes = MapSet(votes, s, vote) ]
                               ELSE [ st EXCEPT
                                        !.votes = MapSet(votes, s, vote),
                                        !.tallies = AddSelections(st.tallies, valid),
                                        !.totalVotes = Increment(st.totalVotes) ] ]
                /\ resp' = {}
                /\ gate' = r
  /\ sent' = {}
  /\ UNCHANGED << impl, storage, connections, sockets, bcast, ledger, cleared >>

\* stored: storage.put("votes") and storage.put("tallies") complete
submitVotePut(r) ==
  /\ impl = "stored"
  /\ req[r].kind = "vote" /\ req[r].pc \in { "putVotes", "putTallies" }
  /\ InputGateOpen(r)
  /\ IF req[r].pc = "putVotes"
     THEN /\ storage' = Put(storage, "votes", req[r].st.votes)
          /\ req' = [ req EXCEPT ![r].pc = "putTallies" ]
     ELSE /\ storage' = Put(storage, "tallies", req[r].st.tallies)
          /\ req' = [ req EXCEPT ![r].pc = "putTotal" ]
  /\ gate' = r
  /\ Quiet
  /\ UNCHANGED << impl, connections, sockets, bcast, ledger, cleared >>

\* the last storage.put of submitVote completes; the broadcast is started and
\* { success: true } is returned
submitVoteDone(r) ==
  /\ req[r].kind = "vote"
  /\ InputGateOpen(r)
  /\ LET s == req[r].sessionId
         st == req[r].st
     IN  /\ \/ /\ impl = "recount" /\ req[r].pc = "putVotes"
               /\ storage' = Put(storage, "votes", st.votes)
               /\ bcast' = SpawnBcast("vote")
               /\ gate' = Bcast
               /\ sent' = {}
            \/ /\ impl = "stored" /\ req[r].pc = "putTotal"
               /\ storage' = Put(storage, "totalVotes", st.totalVotes)
               /\ sent' = Deliver(getWebSockets,
                            Message("update", Snapshot(st, Cardinality(connections))))
               /\ gate' = Free
               /\ UNCHANGED bcast
         /\ req' = [ req EXCEPT ![r] = DoneReq(r, Recorded) ]
         /\ resp' = { VoteResult(r, TRUE, Recorded) }
         /\ ledger' = MapSet(ledger, s, st.votes[s].selections)
         /\ cleared' = cleared \ {s}
  /\ UNCHANGED << impl, connections, sockets >>

\* ----------------------------------------------------- POST /reset
\* fetch, /reset branch: resetSurvey is called and awaits its first storage
\* operation
fetchReset(r) ==
  /\ CanStart(r)
  /\ InputGateOpen(r)
  /\ Started(r, [ IdleReq EXCEPT !.kind = "reset",
                     !.pc = IF impl = "recount" THEN "delVotes" ELSE "deleteAll" ])
  /\ gate' = r
  /\ Quiet
  /\ UNCHANGED << impl, storage, connections, sockets, bcast, ledger, cleared >>

\* resetSurvey: a storage operation other than the last one completes
resetSurveyStep(r) ==
  /\ req[r].kind = "reset"
  /\ InputGateOpen(r)
  /\ \E now \in Times :
       \/ /\ req[r].pc = "delVotes"
          /\ storage' = Delete(storage, "votes")
          /\ req' = [ req EXCEPT ![r].pc = "putStart", ![r].now = now ]
       \/ /\ req[r].pc = "deleteAll"
          /\ storage' = DeleteAll(storage)
          /\ req' = [ req EXCEPT ![r].pc = "putTallies" ]
       \/ /\ req[r].pc = "putTallies"
          /\ storage' = Put(storage, "tallies", ZeroTallies)
          /\ req' = [ req EXCEPT ![r].pc = "putVotes" ]
       \/ /\ req[r].pc = "putVotes"
          /\ storage' = Put(storage, "votes", EmptyMap)
          /\ req' = [ req EXCEPT ![r].pc = "putTotal" ]
       \/ /\ req[r].pc = "putTotal"
          /\ storage' = Put(storage, "totalVotes", 0)
          /\ req' = [ req EXCEPT ![r].pc = "putStart", ![r].now = now ]
  /\ IF req[r].pc \in { "delVotes", "deleteAll" }
     THEN ledger' = EmptyMap /\ cleared' = cleared \cup DOMAIN ledger
     ELSE UNCHANGED << ledger, cleared >>
  /\ gate' = r
  /\ Quiet
  /\ UNCHANGED << impl, connections, sockets, bcast >>

\* storage.put("startTime") completes; the broadcast is started, resetSurvey
\* returns and fetch answers { success: true }
resetSurveyDone(r) ==
  /\ req[r].kind = "reset" /\ req[r].pc = "putStart"
  /\ InputGateOpen(r)
  /\ storage' = Put(storage, "startTime", req[r].now)
  /\ \/ /\ impl = "recount"
        /\ bcast' = SpawnBcast("reset")
        /\ gate' = Bcast
        /\ sent' = {}
     \/ /\ impl = "stored"
        /\ sent' = Deliver(getWebSockets,
                     Message("reset", [ tallies |-> ZeroTallies, totalVotes |-> 0,
                                        onlineUsers |-> Cardinality(connections) ]))
        /\ gate' = Free
        /\ UNCHANGED bcast
  /\ req' = [ req EXCEPT ![r] = DoneReq(r, "ok") ]
  /\ resp' = { [ slot |-> r, kind |-> "reset", success |-> TRUE ] }
  /\ UNCHANGED << impl, connections, sockets, ledger, cleared >>

\* ------------------------------------------------------ GET /state
\* fetch, /state branch: getState is called and awaits storage.get("votes")
fetchState(r) ==
  /\ CanStart(r)
  /\ InputGateOpen(r)
  /\ Started(r, [ IdleReq EXCEPT !.kind = "state", !.pc = "getVotes" ])
  /\ gate' = r
  /\ Quiet
  /\ UNCHANGED << impl, storage, connections, sockets, bcast, ledger, cleared >>

\* inside getState (of /state, of the upgrade, of stored submitVote): a
\* storage.get other than the last one completes
getStateStep(r) ==
  /\ req[r].kind \in { "state", "upgrade" } \/ (req[r].kind = "vote" /\ impl = "stored")
  /\ req[r].pc \in { "getVotes", "getTallies", "getTotal" }
  /\ InputGateOpen(r)
  /\ req' = [ req EXCEPT ![r].pc = GetStateNext(req[r].pc),
                         ![r].st = GetStateRead(req[r].st, storage, req[r].pc, 0) ]
  /\ gate' = r
  /\ Quiet
  /\ UNCHANGED << impl, storage, connections, sockets, bcast, ledger, cleared >>

\* getState returns; fetch answers with the snapshot
fetchStateDone(r) ==
  /\ req[r].kind = "state" /\ req[r].pc = "getStart"
  /\ InputGateOpen(r)
  /\ \E now \in Times :
       LET st == GetStateRead(req[r].st, storage, "getStart", now)
       IN  resp' = { [ slot |-> r, kind |-> "state",
                       body |-> Snapshot(st, Cardinality(connections)) ] }
  /\ req' = [ req EXCEPT ![r] = DoneReq(r, "ok") ]
  /\ gate' = Free
  /\ sent' = {}
  /\ UNCHANGED << impl, storage, connections, sockets, bcast, ledger, cleared >>

\* ------------------------------------------------ WebSocket upgrade
\* fetch, Upgrade branch: the server socket is accepted and added to
\* connections; getState is called and awaits storage.get("votes")
fetchUpgrade(r, w) ==
  /\ CanStart(r)
  /\ InputGateOpen(r)
  /\ sockets[w] = "free"
  /\ sockets' = [ sockets EXCEPT ![w] = "open" ]
  /\ connections' = connections \cup {w}
  /\ Started(r, [ IdleReq EXCEPT !.kind = "upgrade", !.pc = "getVotes", !.ws = w ])
  /\ gate' = r
  /\ Quiet
  /\ UNCHANGED << impl, storage, bcast, ledger, cleared >>

\* getState returns; the snapshot is sent to the new socket and 101 is
\* answered (server.send throws, and fetch with it, if the socket is gone)
fetchUpgradeDone(r) ==
  /\ req[r].kind = "upgrade" /\ req[r].pc = "getStart"
  /\ InputGateOpen(r)
  /\ \E now \in Times :
       LET st == GetStateRead(req[r].st, storage, "getStart", now)
           w == req[r].ws
       IN  IF SendOk(w)
           THEN /\ sent' = { [ to |-> w, msg |->
                     Message("state", Snapshot(st, Cardinality(connections))) ] }
                /\ resp' = { [ slot |-> r, kind |-> "upgrade", status |-> 101 ] }
           ELSE /\ sent' = {}
                /\ resp' = { [ slot |-> r, kind |-> "upgrade", status |-> 500 ] }
  /\ req' = [ req EXCEPT ![r] = DoneReq(r, "ok") ]
  /\ gate' = Free
  /\ UNCHANGED << impl, storage, connections, sockets, bcast, ledger, cleared >>

\* ------------------------------------------------- WebSocket events
\* the peer of an open socket goes away; the close event is not yet delivered
peerClose(w) ==
  /\ sockets[w] = "open"
  /\ sockets' = [ sockets EXCEPT ![w] = "closing" ]
  /\ Quiet
  /\ UNCHANGED << impl, storage, connections, req, bcast, gate, ledger, cleared >>

webSocketClose(w) ==
  /\ sockets[w] = "closing"
  /\ InputGateOpen(w)
  /\ sockets' = [ sockets EXCEPT ![w] = "free" ]
  /\ connections' = connectionsDelete(connections, w)
  /\ \/ /\ impl = "recount"               \* this.broadcastState()
        /\ bcast' = SpawnBcast("close")
        /\ gate' = Bcast
        /\ sent' = {}
     \/ /\ impl = "stored"                \* this.broadcastUserCount()
        /\ sent' = Deliver(getWebSockets \ {w},
                     Message("userCount",
                             [ onlineUsers |-> Cardinality(connections \ {w}) ]))
        /\ UNCHANGED << bcast, gate >>
  /\ resp' = {}
  /\ UNCHANGED << impl, storage, req, ledger, cleared >>

\* the error event of a socket; the runtime may deliver the close event of
\* the same socket afterwards (the socket is then left closing)
webSocketError(w) ==
  /\ sockets[w] \in { "open", "closing" }
  /\ InputGateOpen(w)
  /\ \E after \in { "free", "closing" } : sockets' = [ sockets EXCEPT ![w] = after ]
  /\ connections' = connectionsDelete(connections, w)
  /\ Quiet
  /\ UNCHANGED << impl, storage, req, bcast, gate, ledger, cleared >>

\* The inbound texts: {"type":"ping"}, a JSON object of another or no type,
\* the text null (JSON.parse gives null and data.type throws), and a text
\* that JSON.parse rejects.
Inbound == { "ping", "other", "null", "garbage" }

\* JSON.parse(message) returns and data.type can be read
Parses(m) == m \in { "ping", "other" }

Pong(w) == [ to |-> w, msg |-> [ type |-> "pong" ] ]

Reply_Any(w, m) == IF SendOk(w) THEN { Pong(w) } ELSE {}

Reply_ToAll(w, m) == IF m = "ping" THEN { Pong(x) : x \in Live } ELSE {}

\* the body of webSocketMessage, all of it inside try/catch: a parsed message
\* of type "ping" is answered "pong"; whatever throws (JSON.parse, data.type
\* of null, ws.send on a socket that is gone) is logged
Reply(w, m) ==
  IF Parses(m) /\ m = "ping" /\ SendOk(w) THEN { Pong(w) } ELSE {}

\* a message of socket w is delivered; the peer may have gone since it sent it
webSocketMessage(w, m) ==
  /\ sockets[w] \in { "open", "closing" }
  /\ InputGateOpen(w)
  /\ sent' = Reply(w, m)
  /\ resp' = {}
  /\ UNCHANGED << impl, storage, connections, sockets, req, bcast, gate,
                  ledger, cleared >>

\* ------------------------------------- broadcastState (recount only)
\* getState inside broadcastState: storage.get("votes") completes
broadcastStateStep ==
  /\ bcast.pc = "getVotes"
  /\ InputGateOpen(Bcast)
  /\ bcast' = [ bcast EXCEPT !.pc = "getStart",
                  !.st = GetStateRead(bcast.st, storage, "getVotes", 0) ]
  /\ gate' = Bcast
  /\ Quiet
  /\ UNCHANGED << impl, storage, connections, sockets, req, ledger, cleared >>

\* getState returns; the message is built and sent to every connection, and
\* a connection whose send throws is deleted
broadcastState ==
  /\ bcast.pc = "getStart"
  /\ InputGateOpen(Bcast)
  /\ \E now \in Times :
       LET st == GetStateRead(bcast.st, storage, "getStart", now)
       IN  sent' = Deliver(connections,
                     Message("state", Snapshot(st, Cardinality(connections))))
  /\ connections' = broadcastStateConns(connections)
  /\ bcast' = IdleBcast
  /\ gate' = Free
  /\ resp' = {}
  /\ UNCHANGED << impl, storage, sockets, req, ledger, cleared >>

\* ---------------------------------------------------------------- spec
Next ==
  \/ \E r \in Slots : fetchVote(r)
  \/ \E r \in Slots : voteJson(r)
  \/ \E r \in Slots : submitVoteCheck(r)
  \/ \E r \in Slots : submitVotePut(r)
  \/ \E r \in Slots : submitVoteDone(r)
  \/ \E r \in Slots : fetchReset(r)
  \/ \E r \in Slots : resetSurveyStep(r)
  \/ \E r \in Slots : resetSurveyDone(r)
  \/ \E r \in Slots : fetchState(r)
  \/ \E r \in Slots : getStateStep(r)
  \/ \E r \in Slots : fetchStateDone(r)
  \/ \E r \in Slots, w \in CoreSockets : fetchUpgrade(r, w)
  \/ \E r \in Slots : fetchUpgradeDone(r)
  \/ \E w \in CoreSockets : peerClose(w)
  \/ \E w \in CoreSockets : webSocketClose(w)
  \/ \E w \in CoreSockets : webSocketError(w)
  \/ \E w \in CoreSockets, m \in Inbound : webSocketMessage(w, m)
  \/ broadcastStateStep
  \/ broadcastState

Spec == Init /\ [][Next]_vars

\* ------------------------------------------------------------ faults
\* the slots in which the fault specification runs requests
FaultSlots == { "r1" }

\* the storage operation the request in slot r is awaiting, if any
StoragePcs ==
  { "getVotes", "getTallies", "getTotal", "getStart",
    "putVotes", "putTallies", "putTotal", "putStart", "delVotes", "deleteAll" }

\* The owner goes down and is constructed again: every handler in flight and
\* the detached broadcast are gone, connections is a new empty Set, the
\* sockets are closed by the runtime.  Storage keeps the operations whose
\* await has completed; each put of the stored revision is awaited on its
\* own, so the runtime need not combine them into one write.
crash ==
  /\ req' = [ r \in Slots |-> IdleReq ]
  /\ bcast' = IdleBcast
  /\ gate' = Free
  /\ connections' = {}
  /\ sockets' = [ w \in Sockets |-> "free" ]
  /\ Quiet
  /\ UNCHANGED << impl, storage, ledger, cleared >>

\* the response of fetch when the handler of slot r throws
Thrown(r) ==
  [ slot |-> r, kind |-> "error", of |-> req[r].kind, sessionId |-> req[r].sessionId ]

\* The storage operation that the request in slot r awaits rejects.  Neither
\* fetch nor submitVote, resetSurvey or getState has a try/catch: the handler
\* ends there, the caller gets the exception, later statements are not run
\* and earlier puts stay.
storageFail(r) ==
  /\ InFlight(r) /\ req[r].pc \in StoragePcs
  /\ InputGateOpen(r)
  /\ req' = [ req EXCEPT ![r] = DoneReq(r, "error") ]
  /\ resp' = { Thrown(r) }
  /\ sent' = {}
  /\ gate' = Free
  /\ UNCHANGED << impl, storage, connections, sockets, bcast, ledger, cleared >>

NextFault ==
  \/ \E r \in FaultSlots : fetchVote(r)
  \/ \E r \in FaultSlots : voteJson(r)
  \/ \E r \in FaultSlots : submitVoteCheck(r)
  \/ \E r \in FaultSlots : submitVotePut(r)
  \/ \E r \in FaultSlots : submitVoteDone(r)
  \/ \E r \in FaultSlots : fetchReset(r)
  \/ \E r \in FaultSlots : resetSurveyStep(r)
  \/ \E r \in FaultSlots : resetSurveyDone(r)
  \/ \E r \in FaultSlots : fetchState(r)
  \/ \E r \in FaultSlots : getStateStep(r)
  \/ \E r \in FaultSlots : fetchStateDone(r)
  \/ broadcastStateStep
  \/ broadcastState
  \/ crash
  \/ \E r \in FaultSlots : storageFail(r)

SpecFault == Init /\ [][NextFault]_vars

\* ----------------------------------------------------------- fan-out
\* The fan-out specification: votes, resets, connects and disconnects with
\* every socket of Sockets, so that a notification has several receivers.
\* /vote and /reset requests arrive in one slot and upgrade requests in the
\* other: a connect runs next to a vote or a reset, and at most one vote or
\* reset is in flight.
MutationSlots == { "r1" }

ConnectSlots == { "r2" }

NextFan ==
  \/ \E r \in MutationSlots : fetchVote(r)
  \/ \E r \in Slots : voteJson(r)
  \/ \E r \in Slots : submitVoteCheck(r)
  \/ \E r \in Slots : submitVotePut(r)
  \/ \E r \in Slots : submitVoteDone(r)
  \/ \E r \in MutationSlots : fetchReset(r)
  \/ \E r \in Slots : resetSurveyStep(r)
  \/ \E r \in Slots : resetSurveyDone(r)
  \/ \E r \in Slots : getStateStep(r)
  \/ \E r \in ConnectSlots, w \in Sockets : fetchUpgrade(r, w)
  \/ \E r \in Slots : fetchUpgradeDone(r)
  \/ \E w \in Sockets : peerClose(w)
  \/ \E w \in Sockets : webSocketClose(w)
  \/ \E w \in Sockets : webSocketError(w)
  \/ \E w \in Sockets, m \in Inbound : webSocketMessage(w, m)
  \/ broadcastStateStep
  \/ broadcastState

SpecFan == Init /\ [][NextFan]_vars

\* ----------------------------------------------------------- eviction
Reinstantiated_Wiped(sto) == EmptyStorage

\* What a new instance finds in ctx.storage: what the old one left there.
\* The class keeps votes, tallies, totalVotes and startTime in no field; every
\* handler reads them from ctx.storage.
Reinstantiated(sto) == sto

\* The idle owner is evicted from memory and constructed again for the next
\* event: connections is a new empty Set, while the sockets accepted with
\* ctx.acceptWebSocket stay with the runtime, open.
evict ==
  /\ \A r \in Slots : ~ InFlight(r)
  /\ bcast.pc = "idle"
  /\ gate = Free
  /\ connections' = {}
  /\ storage' = Reinstantiated(storage)
  /\ req' = [ r \in Slots |-> IdleReq ]
  /\ Quiet
  /\ UNCHANGED << impl, sockets, bcast, gate, ledger, cleared >>

\* The eviction specification: the fan-out specification with /state requests
\* and with evictions of the idle owner.
NextEvict ==
  \/ \E r \in MutationSlots : fetchVote(r)
  \/ \E r \in Slots : voteJson(r)
  \/ \E r \in Slots : submitVoteCheck(r)
  \/ \E r \in Slots : submitVotePut(r)
  \/ \E r \in Slots : submitVoteDone(r)
  \/ \E r \in MutationSlots : fetchReset(r)
  \/ \E r \in Slots : resetSurveyStep(r)
  \/ \E r \in Slots : resetSurveyDone(r)
  \/ \E r \in ConnectSlots : fetchState(r)
  \/ \E r \in Slots : getStateStep(r)
  \/ \E r \in Slots : fetchStateDone(r)
  \/ \E r \in ConnectSlots, w \in Sockets : fetchUpgrade(r, w)
  \/ \E r \in Slots : fetchUpgradeDone(r)
  \/ \E w \in Sockets : peerClose(w)
  \/ \E w \in Sockets : webSocketClose(w)
  \/ \E w \in Sockets : webSocketError(w)
  \/ broadcastStateStep
  \/ broadcastState
  \/ evict

SpecEvict == Init /\ [][NextEvict]_vars

\* ============================================================ properties
Range(q) == { q[i] : i \in DOMAIN q }

\* the votes map in storage
StoredVotes == IF "votes" \in storage.keys THEN storage.votes ELSE EmptyMap

\* what a getState that runs now returns
Committed == getState(storage, 1)

\* no storage operation is pending
Quiescent == gate = Free

\* this step is a step of the request in slot r
StepOf(r) == req'[r].pc # req[r].pc

\* slot r is a /vote request whose reads are done: its next step is the
\* already-voted check and the filter
AtCheck(r) == req[r].kind = "vote" /\ VoteReadDone(r)

\* slot r is a /vote request awaiting its last storage.put
AtLastPut(r) ==
  /\ req[r].kind = "vote"
  /\ \/ impl = "recount" /\ req[r].pc = "putVotes"
     \/ impl = "stored" /\ req[r].pc = "putTotal"

\* number of times option o occurs in the selections of the votes
Occurrences(o, sel) == Cardinality({ i \in DOMAIN sel : sel[i] = o })

RECURSIVE TotalOccurrences(_, _)
TotalOccurrences(o, votes) ==
  IF DOMAIN votes = {} THEN 0
  ELSE LET s == CHOOSE x \in DOMAIN votes : TRUE
       IN  Occurrences(o, votes[s].selections)
             + TotalOccurrences(o, [ x \in DOMAIN votes \ {s} |-> votes[x] ])

TypeOK ==
  /\ impl \in Impls
  /\ storage.keys \subseteq StorageKeys
  /\ DOMAIN storage.votes \subseteq Sessions
  /\ connections \subseteq Sockets
  /\ gate \in { Free, Bcast } \cup Slots
  /\ bcast.pc \in { "idle", "getVotes", "getStart" }
  /\ Cardinality(resp) <= 1
  /\ DOMAIN ledger \subseteq Sessions
  /\ cleared \subseteq Sessions

\* C1: one vote per session.  A /vote request whose session is already in the
\* stored votes is answered "already voted" and leaves storage, and with it
\* the votes, tallies and totalVotes that getState reports, as they were; and
\* a success is only ever answered to a session that has not been accepted
\* since the last reset.
C1_OneVotePerSession ==
  [][ \A r \in Slots :
        /\ ( AtCheck(r) /\ StepOf(r) /\ req[r].sessionId \in DOMAIN StoredVotes )
             => /\ resp' = { VoteResult(r, FALSE, AlreadyVoted) }
                /\ storage' = storage
                /\ Committed' = Committed
        /\ ( \E x \in resp' : x.kind = "vote" /\ x.slot = r /\ x.success )
             => req[r].sessionId \notin DOMAIN ledger ]_vars

\* a second submission of a stored session has just been rejected
C1_Witness ==
  \E x \in resp :
    /\ x.kind = "vote" /\ ~ x.success /\ x.text = AlreadyVoted
    /\ x.sessionId \in DOMAIN StoredVotes
    /\ x.sessionId \in DOMAIN ledger

\* C2: tally consistency.  Whenever getState can run, the tally it reports
\* for every catalog option o is the number of stored votes whose selections
\* contain o.
C2_TallyIsVoteCount ==
  Quiescent =>
    \A o \in Catalog :
      Committed.tallies[o] =
        Cardinality({ s \in DOMAIN Committed.votes :
                        o \in Range(Committed.votes[s].selections) })

\* C3: totalVotes reported by getState (to /state, and whenever getState can
\* run) is the number of sessions in the stored votes map.
C3_TotalVotesIsSessionCount ==
  /\ Quiescent => Committed.totalVotes = Cardinality(DOMAIN StoredVotes)
  /\ \A x \in resp :
       x.kind = "state" => x.body.totalVotes = Cardinality(DOMAIN StoredVotes)

\* /state has just reported two sessions
C3_Witness ==
  /\ Cardinality(DOMAIN StoredVotes) = 2
  /\ \E x \in resp : x.kind = "state" /\ x.body.totalVotes = 2

\* C4: selection filtering.  For a session that is not in the stored votes,
\* the request goes on to store a vote iff its selections hold a catalog
\* option; otherwise it is answered "no valid selections" and storage is
\* unchanged.  The vote stored for an accepted request holds exactly the
\* catalog options of the request.
C4_SelectionFiltering ==
  [][ \A r \in Slots :
        LET s == req[r].sessionId
            R == Range(req[r].selections)
        IN  /\ ( AtCheck(r) /\ StepOf(r) /\ s \notin DOMAIN StoredVotes )
                 => IF R \cap Catalog = {}
                    THEN /\ resp' = { VoteResult(r, FALSE, NoValidSelections) }
                         /\ storage' = storage
                         /\ Committed' = Committed
                    ELSE /\ req'[r].pc = "putVotes"
                         /\ resp' = {}
            /\ ( AtLastPut(r) /\ StepOf(r) )
                 => /\ resp' = { VoteResult(r, TRUE, Recorded) }
                    /\ s \in DOMAIN StoredVotes'
                    /\ Range(StoredVotes'[s].selections) = R \cap Catalog ]_vars

\* a request listing an unknown option next to a catalog option has its vote
\* in storage without the unknown option
C4_Witness ==
  \E r \in Slots :
    /\ req[r].kind = "vote" /\ req[r].pc = "putTallies"
    /\ req[r].selections = << "Cursor", "bogus" >>
    /\ req[r].sessionId \in DOMAIN StoredVotes
    /\ StoredVotes[req[r].sessionId].selections = << "Cursor" >>

\* C5: the selections of a stored vote hold every option at most once, so no
\* tally exceeds the number of stored votes.
C5_SelectionsFormSet ==
  /\ \A s \in DOMAIN StoredVotes :
       Len(StoredVotes[s].selections) = Cardinality(Range(StoredVotes[s].selections))
  /\ Quiescent =>
       \A o \in Catalog : Committed.tallies[o] <= Cardinality(DOMAIN StoredVotes)

\* C6: reset completeness.  When resetSurvey returns, getState reports no
\* votes, tally 0 for every catalog option and totalVotes 0; and a session
\* whose vote a reset removed is accepted when it submits valid selections.
C6_ResetCompleteness ==
  [][ \A r \in Slots :
        LET s == req[r].sessionId
        IN  /\ ( req[r].kind = "reset" /\ req[r].pc = "putStart" /\ StepOf(r) )
                 => /\ \E x \in resp' : x.kind = "reset" /\ x.slot = r /\ x.success
                    /\ DOMAIN Committed'.votes = {}
                    /\ Committed'.tallies = [ o \in Catalog |-> 0 ]
                    /\ Committed'.totalVotes = 0
            /\ ( AtCheck(r) /\ StepOf(r) /\ s \in cleared
                   /\ Range(req[r].selections) \cap Catalog # {} )
                 => req'[r].pc = "putVotes"
            /\ ( AtLastPut(r) /\ StepOf(r) /\ s \in cleared )
                 => /\ resp' = { VoteResult(r, TRUE, Recorded) }
                    /\ s \in DOMAIN StoredVotes' ]_vars

\* a session whose vote a reset removed has passed the checks of submitVote
\* again and its new vote is being stored
C6_Witness ==
  \E r \in Slots :
    /\ AtLastPut(r)
    /\ req[r].sessionId \in cleared

\* the vote stored for session s holds the selections accepted for s
StoredAsAccepted(s) ==
  /\ s \in DOMAIN StoredVotes
  /\ s \in DOMAIN ledger
  /\ StoredVotes[s].selections = ledger[s]

\* both slots hold the record of a finished request, of kinds k1 and k2, that
\* were in flight at the same time
FinishedTogether(r, q, k1, k2) ==
  /\ r # q
  /\ req[r].pc = "done" /\ req[r].kind = k1
  /\ req[q].pc = "done" /\ req[q].kind = k2

\* C7: two /vote requests with the same sessionId that were in flight at the
\* same time are never both answered success, and the stored vote of the
\* session holds the selections of the accepted one.
C7_SameSessionRace ==
  \A r, q \in Slots :
    ( FinishedTogether(r, q, "vote", "vote") /\ req[r].sessionId = req[q].sessionId )
      => /\ ~ ( req[r].out = Recorded /\ req[q].out = Recorded )
         /\ req[r].out = Recorded
              => StoredAsAccepted(req[r].sessionId)

\* of two concurrent requests of one session, one was accepted and the other
\* answered "already voted"
C7_Witness ==
  \E r, q \in Slots :
    /\ FinishedTogether(r, q, "vote", "vote")
    /\ req[r].sessionId = req[q].sessionId
    /\ req[r].out = Recorded
    /\ req[q].out = AlreadyVoted

\* C8: no lost update.  When two /vote requests of different sessions that
\* were in flight at the same time are both answered success, the stored
\* votes hold both sessions, and totalVotes and the tallies that getState
\* reports count every stored vote.
C8_NoLostUpdate ==
  \A r, q \in Slots :
    ( /\ FinishedTogether(r, q, "vote", "vote")
      /\ req[r].sessionId # req[q].sessionId
      /\ req[r].out = Recorded /\ req[q].out = Recorded )
      => /\ { req[r].sessionId, req[q].sessionId } \subseteq DOMAIN StoredVotes
         /\ \A s \in { req[r].sessionId, req[q].sessionId } : StoredAsAccepted(s)
         /\ Committed.totalVotes = Cardinality(DOMAIN StoredVotes)
         /\ \A o \in Catalog :
              Committed.tallies[o] = TotalOccurrences(o, StoredVotes)

\* two concurrent requests of different sessions were both accepted
C8_Witness ==
  \E r, q \in Slots :
    /\ FinishedTogether(r, q, "vote", "vote")
    /\ req[r].sessionId # req[q].sessionId
    /\ req[r].out = Recorded /\ req[q].out = Recorded
    /\ Cardinality(DOMAIN StoredVotes) = 2

\* C9: a /vote in flight at the same time as a /reset is serialized with it.
\* Once both have finished, storage holds no vote, or exactly the vote of that
\* request (which was then answered success), and the tallies and totalVotes
\* that getState reports match the stored votes.
C9_VoteResetSerialized ==
  \A r, q \in Slots :
    FinishedTogether(r, q, "vote", "reset")
      => LET s == req[r].sessionId
         IN  /\ \/ DOMAIN StoredVotes = {}
                \/ /\ req[r].out = Recorded
                   /\ DOMAIN StoredVotes = { s }
                   /\ StoredAsAccepted(s)
             /\ Committed.totalVotes = Cardinality(DOMAIN StoredVotes)
             /\ \A o \in Catalog :
                  Committed.tallies[o] = TotalOccurrences(o, StoredVotes)

\* the reset removed earlier votes and the concurrent vote, ordered after it,
\* is the only vote in storage
C9_Witness ==
  \E r, q \in Slots :
    /\ FinishedTogether(r, q, "vote", "reset")
    /\ req[r].out = Recorded
    /\ DOMAIN StoredVotes = { req[r].sessionId }
    /\ cleared \ { req[r].sessionId } # {}

\* C10: durability before response.  When a success is answered to a /vote
\* request, the vote of its session is in storage, and so are the counters
\* that go with it.
C10_DurableBeforeResponse ==
  \A x \in resp :
    ( x.kind = "vote" /\ x.success )
      => /\ "votes" \in storage.keys
         /\ StoredAsAccepted(x.sessionId)
         /\ impl = "stored"
              => /\ { "tallies", "totalVotes" } \subseteq storage.keys
                 /\ storage.totalVotes = Cardinality(DOMAIN storage.votes)

\* a success has just been answered
C10_Witness ==
  \E x \in resp :
    /\ x.kind = "vote" /\ x.success
    /\ x.sessionId \in DOMAIN StoredVotes

\* the part of a SurveyState that a vote changes
VoteFields(st) ==
  [ votes |-> st.votes, tallies |-> st.tallies, totalVotes |-> st.totalVotes ]

\* slot r is a /vote request that has passed the checks and not yet returned:
\* it is persisting its vote
Persisting(r) ==
  /\ req[r].kind = "vote"
  /\ req[r].pc \in { "putVotes", "putTallies", "putTotal" }

\* the state with the vote of the request in slot r: what getState reports
\* once all its puts are in storage
PostVote(r) ==
  IF impl = "recount"
  THEN [ votes |-> req[r].st.votes,
         tallies |-> [ o \in Catalog |-> TotalOccurrences(o, req[r].st.votes) ],
         totalVotes |-> Cardinality(DOMAIN req[r].st.votes) ]
  ELSE VoteFields(req[r].st)

\* c is the state before the vote of the request in slot r: the session is
\* not in its votes, and adding the vote to it gives the post-vote state
IsPreVote(c, r) ==
  LET s == req[r].sessionId
      post == PostVote(r)
  IN  /\ s \notin DOMAIN c.votes
      /\ MapSet(c.votes, s, post.votes[s]) = post.votes
      /\ [ o \in Catalog |->
             c.tallies[o] + Occurrences(o, post.votes[s].selections) ] = post.tallies
      /\ c.totalVotes + 1 = post.totalVotes

\* C11: atomic persistence of a vote.  When the owner crashes while a /vote
\* request is persisting, what the next getState reports is the state before
\* the vote or the state with the vote, never a mixture.
C11_AtomicVotePersistence ==
  [][ \A r \in FaultSlots :
        ( Persisting(r) /\ crash )
          => \/ VoteFields(Committed') = PostVote(r)
             \/ IsPreVote(VoteFields(Committed'), r) ]_vars

\* C12: storage failure during submitVote.  When a storage read or write of
\* a /vote request fails, the caller gets a result that is not a success, the
\* vote is not accepted, nothing is sent to the subscribers, and no part of the
\* vote (votes entry, tally increments, totalVotes) is in storage.
C12_StorageFailureLeavesNoTrace ==
  [][ \A r \in FaultSlots :
        ( req[r].kind = "vote" /\ storageFail(r) )
          => /\ resp' # {}
             /\ \A x \in resp' : x.slot = r /\ x.kind = "error"
             /\ sent' = {}
             /\ ledger' = ledger
             /\ Persisting(r) => IsPreVote(VoteFields(Committed'), r) ]_vars

\* socket w has been accepted by an upgrade request that has not yet sent its
\* snapshot
Joining(w) ==
  \E r \in Slots : req[r].kind = "upgrade" /\ InFlight(r) /\ req[r].ws = w

\* slot r is an upgrade request whose state read is done: its next step sends
\* the snapshot
AtSnapshot(r) == req[r].kind = "upgrade" /\ req[r].pc = "getStart"

\* C13: snapshot-on-join.  From the moment a socket is accepted until its
\* upgrade request sends the snapshot, storage does not change and nothing is
\* sent to the socket; the snapshot goes to an open socket as one message of
\* type "state" whose tallies and totalVotes are those getState reports, and
\* nothing else is sent to the socket in that step.
C13_SnapshotOnJoin ==
  [][ /\ \A w \in Sockets :
           Joining(w)
             => /\ storage' = storage
                /\ \A x \in sent' :
                     x.to = w => \E r \in Slots : AtSnapshot(r) /\ StepOf(r) /\ req[r].ws = w
      /\ \A r \in Slots :
           ( AtSnapshot(r) /\ StepOf(r) )
             => LET w == req[r].ws
                    own == { x \in sent' : x.to = w }
                IN  /\ sockets[w] = "open" => own # {}
                    /\ \A x \in own :
                         /\ own = { x }
                         /\ x.msg.type = "state"
                         /\ x.msg.data.tallies = Committed.tallies
                         /\ x.msg.data.totalVotes = Committed.totalVotes ]_vars

\* a socket has just been sent its snapshot, which counts an earlier vote,
\* while a /vote or /reset request in the other slot is in flight
C13_Witness ==
  \E r, q \in Slots, x \in sent :
    /\ req[r].pc = "done" /\ req[r].kind = "upgrade"
    /\ req[q].kind \in { "vote", "reset" } /\ InFlight(q)
    /\ x.msg.type = "state" /\ x.msg.data.totalVotes >= 1
    /\ \E y \in resp : y.kind = "upgrade" /\ y.slot = r /\ y.status = 101

\* this step sends every live subscriber a message of the given type that
\* carries the tallies and totalVotes getState reports after the step
NotifiesAll(type) ==
  \A w \in Live :
    \E x \in sent' :
      /\ x.to = w
      /\ x.msg.type = type
      /\ x.msg.data.tallies = Committed'.tallies
      /\ x.msg.data.totalVotes = Committed'.totalVotes

\* this step is the fan-out of the detached broadcast started for cause
DetachedFanOut(cause) ==
  bcast.cause = cause /\ bcast.pc = "getStart" /\ bcast'.pc = "idle"

\* C14: push on vote.  The step that accepts a vote sends every live
\* subscriber a message of type "update" with the tallies and totalVotes that
\* include the vote, or starts a broadcast whose fan-out does so.
C14_PushOnVote ==
  [][ /\ \A r \in Slots :
           ( AtLastPut(r) /\ StepOf(r) )
             => /\ req[r].sessionId \in DOMAIN Committed'.votes
                /\ \/ NotifiesAll("update")
                   \/ bcast'.cause = "vote" /\ bcast'.pc = "getVotes"
      /\ DetachedFanOut("vote")
           => /\ DOMAIN ledger \subseteq DOMAIN Committed'.votes
              /\ NotifiesAll("update") ]_vars

\* this step sends every live subscriber a message of type "reset" with
\* tally 0 for every catalog option and totalVotes 0
NotifiesReset ==
  \A w \in Live :
    \E x \in sent' :
      /\ x.to = w
      /\ x.msg.type = "reset"
      /\ x.msg.data.tallies = [ o \in Catalog |-> 0 ]
      /\ x.msg.data.totalVotes = 0

\* C15: reset notification.  The step that completes a reset sends every live
\* subscriber a message of type "reset", which is not the type of a vote
\* update, with all tallies 0 and totalVotes 0, or starts a broadcast whose
\* fan-out does so.
C15_ResetNotification ==
  [][ /\ \A r \in Slots :
           ( req[r].kind = "reset" /\ req[r].pc = "putStart" /\ StepOf(r) )
             => \/ NotifiesReset
                \/ bcast'.cause = "reset" /\ bcast'.pc = "getVotes"
      /\ DetachedFanOut("reset") => NotifiesReset ]_vars

\* the sockets a fan-out of this revision iterates over
Targets == IF impl = "recount" THEN connections ELSE getWebSockets

\* the targets whose send throws
Failing == { w \in Targets : sockets[w] # "open" }

\* this step is the last step of the /vote request in slot r
VoteDoneStep(r) == AtLastPut(r) /\ StepOf(r)

\* this step is the last step of the /reset request in slot r
ResetDoneStep(r) == req[r].kind = "reset" /\ req[r].pc = "putStart" /\ StepOf(r)

\* this step runs the send loop of the notification of a vote or a reset
FanOutStep ==
  \/ impl = "stored" /\ \E r \in Slots : VoteDoneStep(r) \/ ResetDoneStep(r)
  \/ bcast.pc = "getStart" /\ bcast'.pc = "idle"

\* C16: broadcast isolation.  In a fan-out where the send to some subscriber
\* fails, every live subscriber is still sent the notification, the same one
\* to each; the /vote or /reset that triggered it is answered success and its
\* mutation is in storage, and a detached fan-out leaves storage as it is.
C16_BroadcastIsolation ==
  [][ ( FanOutStep /\ Failing # {} )
        => /\ \A w \in Live \cap Targets : \E x \in sent' : x.to = w
           /\ \A x, y \in sent' : x.msg = y.msg
           /\ \A r \in Slots :
                /\ VoteDoneStep(r)
                     => /\ resp' = { VoteResult(r, TRUE, Recorded) }
                        /\ req[r].sessionId \in DOMAIN StoredVotes'
                /\ ResetDoneStep(r)
                     => /\ \E x \in resp' : x.kind = "reset" /\ x.slot = r /\ x.success
                        /\ DOMAIN StoredVotes' = {}
           /\ ( bcast.pc = "getStart" /\ bcast'.pc = "idle" ) => storage' = storage ]_vars

\* a vote has just been answered success and its update sent to one
\* subscriber while the send to the other, whose peer has gone, failed
C16_Witness ==
  \E x \in sent, y \in resp, w \in Sockets :
    /\ sockets[w] = "closing"
    /\ x.to # w
    /\ x.msg.type = "update"
    /\ y.kind = "vote" /\ y.success
    /\ y.sessionId \in DOMAIN StoredVotes

\* C17: a subscriber whose send fails in the fan-out of a vote or a reset is
\* not in connections when the fan-out is over, and so is not counted in
\* onlineUsers (connections.size) from then on.
C17_FailedSubscriberRemoved ==
  [][ FanOutStep => \A w \in Failing : w \notin connections' ]_vars

\* the messages of a set of sends that carry tallies
WithTallies(s) == { x \in s : x.msg.type \in { "state", "update", "reset" } }

\* slot r is a /vote or /reset request that has completed some, but not all,
\* of its storage writes
MidWrite(r) ==
  \/ req[r].kind = "reset" /\ req[r].pc \in { "putTallies", "putVotes", "putTotal", "putStart" }
  \/ req[r].kind = "vote" /\ req[r].pc \in { "putTallies", "putTotal" }

\* C18: commit before fan-out.  A step that sends tallies sends the tallies
\* and totalVotes that storage holds after the step, and no request is then
\* between two of its writes; a fan-out in which a send fails leaves exactly
\* the mutation in storage (the vote once, or the empty survey), and a
\* detached fan-out does not write.
C18_CommitBeforeFanOut ==
  [][ /\ \A x \in WithTallies(sent') :
           /\ x.msg.data.tallies = Committed'.tallies
           /\ x.msg.data.totalVotes = Committed'.totalVotes
           /\ \A r \in Slots : ~ MidWrite(r)'
      /\ ( FanOutStep /\ Failing # {} )
           => /\ \A r \in Slots :
                   /\ VoteDoneStep(r) => VoteFields(Committed') = PostVote(r)
                   /\ ResetDoneStep(r)
                        => /\ DOMAIN Committed'.votes = {}
                           /\ Committed'.totalVotes = 0
              /\ ( bcast.pc = "getStart" /\ bcast'.pc = "idle" ) => storage' = storage ]_vars

\* the notification of the second stored vote has just been sent to a
\* subscriber, with totalVotes 2, while the send to another subscriber failed
C18_Witness ==
  \E x \in sent, w \in Sockets :
    /\ x.msg.type \in { "state", "update" }
    /\ x.msg.data.totalVotes = 2
    /\ Cardinality(DOMAIN StoredVotes) = 2
    /\ sockets[w] = "closing" /\ x.to # w
    /\ \A y \in resp : y.kind = "vote"
    /\ bcast.pc = "idle"

\* C19: disconnect is unconditional and idempotent.  After the close or error
\* handler has run for socket w, w is not in connections and nothing else has
\* left or joined it; storage is untouched; and for a w that was already
\* absent connections is as before.
C19_DisconnectIdempotent ==
  [][ \A w \in Sockets :
        ( webSocketClose(w) \/ webSocketError(w) )
          => /\ w \notin connections'
             /\ connections' \cup {w} = connections \cup {w}
             /\ storage' = storage
             /\ w \notin connections => connections' = connections ]_vars

\* the error handler has removed a socket, the other subscriber stays, and
\* the close event of the socket that is already absent is still to be handled
C19_Witness ==
  \E w, v \in Sockets :
    /\ impl = "stored"
    /\ sockets[w] = "closing" /\ w \notin connections
    /\ sockets[v] = "open" /\ v \in connections

\* this step sends every live subscriber in connections a message that
\* carries the onlineUsers count after the step
PushesPresence ==
  \A w \in Live' \cap connections' :
    \E x \in sent' :
      /\ x.to = w
      /\ x.msg.type \in { "state", "update", "reset", "userCount" }
      /\ x.msg.data.onlineUsers = Cardinality(connections')

\* C20: presence push.  When a connect completes with its snapshot, and when
\* a close, an error or a failed send takes a socket out of connections,
\* every live subscriber that remains is sent the new onlineUsers count, in
\* that step or by the fan-out of a broadcast the step starts, and storage is
\* not written.
C20_PresencePush ==
  [][ /\ ( \E r \in Slots : AtSnapshot(r) /\ StepOf(r) /\ sockets[req[r].ws] = "open" )
           => PushesPresence /\ storage' = storage
      /\ Cardinality(connections') < Cardinality(connections)
           => /\ PushesPresence \/ ( bcast'.cause = "close" /\ bcast'.pc = "getVotes" )
              /\ storage' = storage
      /\ DetachedFanOut("close")
           => PushesPresence /\ storage' = storage ]_vars

\* C21: heartbeat.  A ping from a subscriber whose socket is open is answered
\* with exactly one pong, sent to that subscriber; no other subscriber is sent
\* anything, no response is produced, and storage, what getState reports,
\* connections and the sockets are unchanged.
C21_Heartbeat ==
  [][ \A w \in Sockets :
        ( sockets[w] = "open" /\ webSocketMessage(w, "ping") )
          => /\ sent' = { [ to |-> w, msg |-> [ type |-> "pong" ] ] }
             /\ resp' = {}
             /\ storage' = storage
             /\ Committed' = Committed
             /\ connections' = connections
             /\ sockets' = sockets ]_vars

\* a subscriber has just been sent a pong while another subscriber is
\* connected and a vote is stored
C21_Witness ==
  \E w, v \in Sockets :
    /\ w # v
    /\ sent = { [ to |-> w, msg |-> [ type |-> "pong" ] ] }
    /\ sockets[v] = "open" /\ v \in connections
    /\ DOMAIN StoredVotes # {}

\* C22: inbound messages other than a well-formed ping are dropped.  A text
\* that does not parse, the text null, and a parsed message of another or no
\* type produce no reply, no broadcast and no response, and leave connections
\* (the sender included), the sockets, storage and the detached broadcast as
\* they were; so does a ping whose reply cannot be sent.
C22_MalformedDropped ==
  [][ \A w \in Sockets, m \in Inbound :
        ( webSocketMessage(w, m) /\ ( m # "ping" \/ sockets[w] # "open" ) )
          => /\ sent' = {}
             /\ resp' = {}
             /\ connections' = connections
             /\ sockets' = sockets
             /\ storage' = storage
             /\ bcast' = bcast
             /\ req' = req ]_vars

\* messages can be delivered (no storage operation is pending) for an open
\* subscriber and for one whose peer has gone, both in connections; after
\* their messages have been dropped nothing has been sent
C22_Witness ==
  \E w, v \in Sockets :
    /\ gate = Free
    /\ sockets[w] = "closing" /\ w \in connections
    /\ sockets[v] = "open" /\ v \in connections
    /\ sent = {} /\ resp = {}
    /\ DOMAIN StoredVotes # {}

\* this step belongs to a /state request in slot r: its arrival or the
\* completion of one of its storage reads
StateFetchStep(r) ==
  \/ req[r].kind = "state" /\ InFlight(r) /\ StepOf(r)
  \/ CanStart(r) /\ req'[r].kind = "state" /\ req'[r].pc = "getVotes"

\* C23: fetching the snapshot is a pure read.  No step of a /state request
\* writes storage, changes connections or the sockets, sends a message or
\* starts a broadcast; and the response is determined by storage and
\* connections, which the request leaves as they are: tallies and totalVotes
\* are those getState reports and onlineUsers is the size of connections, so
\* two fetches with nothing in between answer the same.
C23_StateIsPureRead ==
  [][ \A r \in Slots :
        StateFetchStep(r)
          => /\ storage' = storage
             /\ connections' = connections
             /\ sockets' = sockets
             /\ sent' = {}
             /\ bcast' = bcast
             /\ ( req[r].pc = "getStart" )
                  => resp' = { [ slot |-> r, kind |-> "state",
                                 body |-> [ tallies |-> Committed.tallies,
                                            totalVotes |-> Committed.totalVotes,
                                            onlineUsers |-> Cardinality(connections) ] ] } ]_vars

\* /state has just answered with one vote counted and one subscriber online
C23_Witness ==
  \E x \in resp :
    /\ x.kind = "state"
    /\ x.body.totalVotes = 1
    /\ x.body.onlineUsers = 1
    /\ Cardinality(DOMAIN StoredVotes) = 1
    /\ Cardinality(connections) = 1

\* the snapshots given out by the last step: the body of a /state response
\* and the data of a message of type "state"
SnapshotsOut ==
  { x.body : x \in { y \in resp : y.kind = "state" } }
    \cup { x.msg.data : x \in { y \in sent : y.msg.type = "state" } }

\* C24: a snapshot is a committed state.  When a snapshot is given out, no
\* /vote or /reset request is between two of its writes, and the snapshot's
\* totalVotes and tallies are both those of the votes in storage.
C24_SnapshotIsCommitted ==
  \A b \in SnapshotsOut :
    /\ \A q \in Slots : ~ MidWrite(q)
    /\ b.totalVotes = Cardinality(DOMAIN StoredVotes)
    /\ \A o \in Catalog : b.tallies[o] = TotalOccurrences(o, StoredVotes)

\* /state has just answered, with a stored vote counted, a request that was
\* in flight together with a /vote or /reset request that is still in flight
C24_Witness ==
  \E r, q \in Slots, x \in resp :
    /\ x.kind = "state" /\ x.slot = r
    /\ req[r].pc = "done" /\ req[r].kind = "state"
    /\ req[q].kind \in { "vote", "reset" } /\ InFlight(q)
    /\ x.body.totalVotes >= 1

\* C25: the keys of the tallies are the catalog.  In every state, after a
\* crash or a failed storage operation included, the tallies that getState
\* reports, and those of every /state response, have exactly the catalog
\* options as keys; with nothing in storage every tally and totalVotes are 0.
C25_TallyKeysAreCatalog ==
  /\ DOMAIN Committed.tallies = Catalog
  /\ \A x \in resp : x.kind = "state" => DOMAIN x.body.tallies = Catalog
  /\ storage.keys = {}
       => /\ \A o \in Catalog : Committed.tallies[o] = 0
          /\ Committed.totalVotes = 0

\* the owner has restarted after a vote was written and before its counters
\* were: the stored tallies are missing and getState falls back on the default
C25_Witness ==
  /\ impl = "stored"
  /\ storage.keys = { "votes" }
  /\ DOMAIN StoredVotes # {}
  /\ \A r \in Slots : req[r].pc = "idle"
  /\ gate = Free

\* C26: votes survive a restart.  An eviction leaves what getState reports
\* as it was, with the vote of every session accepted since the last reset
\* in it; whenever no storage operation is pending every such vote is in
\* storage as accepted; and a /vote request of such a session is answered
\* "already voted", before and after an eviction, with storage untouched.
C26_VotesSurviveRestart ==
  [][ /\ evict
           => /\ VoteFields(Committed') = VoteFields(Committed)
              /\ \A s \in DOMAIN ledger :
                   /\ s \in DOMAIN Committed'.votes
                   /\ Committed'.votes[s].selections = ledger[s]
      /\ Quiescent' => \A s \in DOMAIN ledger' : StoredAsAccepted(s)'
      /\ \A r \in Slots :
           ( AtCheck(r) /\ StepOf(r) /\ req[r].sessionId \in DOMAIN ledger )
             => /\ resp' = { VoteResult(r, FALSE, AlreadyVoted) }
                /\ storage' = storage ]_vars

\* after an eviction (a socket is open and connections is empty) a session
\* whose vote had been accepted before has just been answered "already voted"
C26_Witness ==
  \E x \in resp, w \in Sockets :
    /\ connections = {}
    /\ sockets[w] = "open"
    /\ x.kind = "vote" /\ ~ x.success /\ x.text = AlreadyVoted
    /\ x.sessionId \in DOMAIN ledger
    /\ StoredAsAccepted(x.sessionId)

\* C27: order of the rejection checks.  A /vote request of a session that is
\* in the stored votes is answered "already voted" whatever its selections
\* are, those without a catalog option included; "no valid selections" is
\* answered only to a session that is not in the stored votes and has not
\* been accepted since the last reset.
C27_AlreadyVotedFirst ==
  [][ \A r \in Slots :
        LET s == req[r].sessionId
        IN  /\ ( AtCheck(r) /\ StepOf(r) /\ s \in DOMAIN StoredVotes )
                 => \A x \in resp' : x.text = AlreadyVoted /\ ~ x.success
            /\ ( AtCheck(r) /\ StepOf(r) /\ s \in DOMAIN StoredVotes
                   /\ Range(req[r].selections) \cap Catalog = {} )
                 => resp' = { VoteResult(r, FALSE, AlreadyVoted) }
            /\ ( \E x \in resp' : x.kind = "vote" /\ x.slot = r
                                   /\ x.text = NoValidSelections )
                 => s \notin DOMAIN StoredVotes /\ s \notin DOMAIN ledger ]_vars

\* a /vote request of a session with a stored vote, carrying selections
\* without a catalog option, has done its reads and is at the two checks
C27_Witness ==
  \E r \in Slots :
    /\ AtCheck(r)
    /\ req[r].sessionId \in DOMAIN StoredVotes
    /\ req[r].sessionId \in DOMAIN ledger
    /\ req[r].selections = << "bogus" >>

\* the startTime that a getState call made at time t returns
StartTimeAt(sto, t) == getState(sto, t).startTime

\* C28: the epoch start time is fixed.  Two getState calls on the same
\* storage, made at whatever times, return the same startTime; and no step of
\* a /vote request changes the startTime that getState returns.
C28_StartTimeFixed ==
  [][ /\ \A t1, t2 \in Times : StartTimeAt(storage, t1) = StartTimeAt(storage, t2)
      /\ \A r \in Slots :
           ( req[r].kind = "vote" /\ InFlight(r) /\ StepOf(r) )
             => \A t \in Times : StartTimeAt(storage', t) = StartTimeAt(storage, t) ]_vars

\* the /vote request in slot r must be rejected: its session is in the stored
\* votes, or its selections hold no catalog option
MustReject(r) ==
  \/ req[r].sessionId \in DOMAIN StoredVotes
  \/ Range(req[r].selections) \cap Catalog = {}

\* C29: a rejected submitVote has no side effect.  The steps of a /vote
\* request before its first put only read; and a request that must be
\* rejected ends at the checks with a result that is not a success, having
\* written nothing to storage, sent nothing to any subscriber, started no
\* broadcast and left connections and the sockets as they were.
C29_RejectionHasNoEffect ==
  [][ \A r \in Slots :
        /\ ( req[r].kind = "vote" /\ InFlight(r) /\ StepOf(r) /\ ~ Persisting(r) )
             => /\ storage' = storage
                /\ sent' = {}
                /\ bcast' = bcast
                /\ connections' = connections
                /\ sockets' = sockets
        /\ ( AtCheck(r) /\ StepOf(r) /\ MustReject(r) )
             => /\ ~ InFlight(r)'
                /\ resp' # {}
                /\ \A x \in resp' : x.kind = "vote" /\ x.slot = r /\ ~ x.success ]_vars

\* a /vote request has just been rejected while a subscriber is connected:
\* nothing was sent
C29_Witness ==
  \E x \in resp, w \in Sockets :
    /\ x.kind = "vote" /\ ~ x.success
    /\ sockets[w] = "open" /\ w \in connections
    /\ sent = {}
    /\ bcast.pc = "idle"

\* C30: connections is the set of open subscribers.  Every subscriber whose
\* socket is open is in connections, and connections holds no socket other
\* than the accepted ones the runtime still holds (open, or gone with the
\* close event still to come); every snapshot given out reports at least the
\* open subscribers as onlineUsers.
C30_ConnectionsAreOpenSockets ==
  /\ Live \subseteq connections
  /\ connections \subseteq getWebSockets
  /\ \A b \in SnapshotsOut : b.onlineUsers >= Cardinality(Live)

\* ---------------------------------------------------------------------------
\* Crash consistency of resetSurvey (index.ts 161-167, 483-490, 432-439)
\* ---------------------------------------------------------------------------

\* the vote fields of a survey nobody has voted in
EmptyVoteFields ==
  [ votes |-> EmptyMap, tallies |-> ZeroTallies, totalVotes |-> 0 ]

\* resetSurvey of request r is running and its first storage operation has not
\* completed yet
ResetAtFirstOp(r) ==
  /\ req[r].kind = "reset"
  /\ req[r].pc \in { "delVotes", "deleteAll" }

\* the first storage operation of r's resetSurvey has completed and the last
\* one has not
ResetBetweenOps(r) ==
  /\ req[r].kind = "reset"
  /\ req[r].pc \in { "putTallies", "putVotes", "putTotal", "putStart" }

\* C31: when the owner crashes while resetSurvey runs, the state the next
\* getState returns is the full pre-reset state if the first storage operation
\* had not completed, and the empty state (no votes, every tally 0,
\* totalVotes 0) if the crash falls between the first and the last operation;
\* it never pairs pre-reset counters with an empty votes map, or the reverse.
C31_ResetCrashConsistent ==
  [][ \A r \in Slots :
        crash =>
          /\ ResetAtFirstOp(r) =>
               VoteFields(getState(storage', 1)) = VoteFields(getState(storage, 1))
          /\ ResetBetweenOps(r) =>
               VoteFields(getState(storage', 1)) = EmptyVoteFields ]_vars

\* the owner has crashed in the middle of a reset of a survey that held votes:
\* the stored revision's deleteAll and put("tallies") are done, the later puts
\* are not, and nothing is running
C31_Witness ==
  /\ impl = "stored"
  /\ storage.keys = { "tallies" }
  /\ cleared # {}
  /\ \A r \in Slots : req[r] = IdleReq
  /\ gate = Free

=============================================================================
